---- MODULE Spec2Model ----
(***************************************************************************)
(* Model of aucc (avell-unofficial-control-center): the command encoding   *)
(* of src/aucc/main.py (brightness_map, programs, colours, the style       *)
(* pattern, get_light_style_code, get_code), the ControlCenter operations  *)
(* and the command-line entry point main(), over the DeviceHandler         *)
(* primitives of src/aucc/core/handler.py.                                 *)
(*                                                                         *)
(* Python values are represented as follows.                               *)
(*   - an optional integer (None or an int) is a sequence: <<>> is None    *)
(*     and <<v>> is the integer v;                                         *)
(*   - a style string is the sequence of its characters;                   *)
(*   - a colour name is a string;                                          *)
(*   - a raised exception is the field err of the execution record, with   *)
(*     "none" for a normal return.                                         *)
(***************************************************************************)
EXTENDS Integers, Sequences, FiniteSets, TLC

VARIABLES
    brightness,   \* ControlCenter.brightness (main.py:107)
    history,      \* every transfer issued to a device so far, in order
    lastCall,     \* the last operation called: arguments, outcome, transfers
    log,          \* the operations called so far: name, arguments, outcome
    nOps,         \* number of operations called so far
    env,          \* the host: the USB bus and sys.platform
    detached,     \* bus positions whose kernel driver has been detached
    run           \* the outcome of the command-line invocation

vars == << brightness, history, lastCall, log, nOps, env, detached, run >>

----------------------------------------------------------------------------
(* Bounds of the model. *)

\* Operations called on one ControlCenter in one behaviour.
MaxOps == 2

\* Devices on the USB bus.
MaxDevices == 2

\* Brightness levels tried are -1 .. MaxLevel (the valid ones are 1..4).
MaxLevel == 5

\* Speeds tried are 0 .. MaxSpeed (the documented ones are 1..10).
MaxSpeed == 11

----------------------------------------------------------------------------
(* Python values. *)

None == << >>

Some(v) == << v >>

\* Mutation of Truthy: only None is false, as with `is not None`.
Truthy_mutant(x) == x # None

\* Python truth value of an optional integer: None and 0 are false.
Truthy(x) == x # None /\ x # Some(0)

----------------------------------------------------------------------------
(* The tables of main.py. *)

\* Mutation of brightness_map: 0x16 entered as decimal 16.
brightness_map_mutant == (1 :> 8) @@ (2 :> 16) @@ (3 :> 36) @@ (4 :> 50)

\* brightness_map (main.py:23-28): 1: 0x08, 2: 0x16, 3: 0x24, 4: 0x32
brightness_map == (1 :> 8) @@ (2 :> 22) @@ (3 :> 36) @@ (4 :> 50)

\* The keys of programs, in the order of the dict literal (main.py:30-43).
program_names == <<
    << "b","r","e","a","t","h","i","n","g" >>,
    << "w","a","v","e" >>,
    << "r","a","n","d","o","m" >>,
    << "r","e","a","c","t","i","v","e" >>,
    << "r","a","i","n","b","o","w" >>,
    << "r","i","p","p","l","e" >>,
    << "r","e","a","c","t","i","v","e","r","i","p","p","l","e" >>,
    << "m","a","r","q","u","e","e" >>,
    << "f","i","r","e","w","o","r","k","s" >>,
    << "r","a","i","n","d","r","o","p" >>,
    << "a","u","r","o","r","a" >>,
    << "r","e","a","c","t","i","v","e","a","u","r","o","r","a" >> >>

\* The values of programs, by position of the key (main.py:30-43):
\* 0x02 0x03 0x04 0x04 0x05 0x06 0x07 0x09 0x11 0x0A 0x0E 0x0E
program_codes == << 2, 3, 4, 4, 5, 6, 7, 9, 17, 10, 14, 14 >>

ProgramIndex(name) == CHOOSE i \in 1..Len(program_names) : program_names[i] = name

\* programs[name] (main.py:30-43)
programs(name) == program_codes[ProgramIndex(name)]

\* colours (main.py:45-53)
colours == ("r" :> 1) @@ ("o" :> 2) @@ ("y" :> 3) @@ ("g" :> 4) @@
           ("b" :> 5) @@ ("t" :> 6) @@ ("p" :> 7)

wave == program_names[2]
reactive == program_names[4]
rainbow == program_names[5]
marquee == program_names[8]
fireworks == program_names[9]
reactiveaurora == program_names[12]

----------------------------------------------------------------------------
(* re.match(light_style_pattern, style), main.py:55-61.                    *)
(* The pattern is ^(p1|...|p12)(c1|...|c7)?$ : the alternatives are tried  *)
(* in order, the optional colour group is greedy, and $ (without           *)
(* re.MULTILINE) matches at the end of the string and just before a        *)
(* newline that is the last character of the string.                       *)

IsPrefix(p, s) == Len(p) <= Len(s) /\ SubSeq(s, 1, Len(p)) = p

Rest(p, s) == SubSeq(s, Len(p) + 1, Len(s))

\* Where $ matches: the remaining input is empty or one final newline.
AtEnd(r) == r = << >> \/ r = << "\n" >>

\* The groups matched with the first group fixed to program p, or << >> when
\* this alternative fails: <<p, <<c>>>> with a colour, <<p, None>> without.
MatchWith(p, style) ==
    IF ~IsPrefix(p, style) THEN << >>
    ELSE LET r == Rest(p, style) IN
         IF r # << >> /\ r[1] \in DOMAIN colours /\ AtEnd(Tail(r))
             THEN << p, Some(r[1]) >>
         ELSE IF AtEnd(r) THEN << p, None >>
         ELSE << >>

\* match.groups() of re.match(light_style_pattern, style), or << >> for no
\* match (main.py:56-66).
light_style_match(style) ==
    LET hits == { i \in 1..Len(program_names) :
                      MatchWith(program_names[i], style) # << >> } IN
    IF hits = {} THEN << >>
    ELSE LET first == CHOOSE i \in hits : \A j \in hits : i <= j IN
         MatchWith(program_names[first], style)

----------------------------------------------------------------------------
(* Command frames. *)

\* Mutation of get_code: speed and brightness in each other's position.
get_code_mutant(program, speed, brightness_code, colour, program2, save_changes) ==
    << 8, 2, program, brightness_code, speed, colour, program2, save_changes >>

\* Mutation of get_code: the save_changes byte is left out.
get_code_short(program, speed, brightness_code, colour, program2, save_changes) ==
    << 8, 2, program, speed, brightness_code, colour, program2 >>

\* get_code (main.py:91-101)
get_code(program, speed, brightness_code, colour, program2, save_changes) ==
    << 8, 2, program, speed, brightness_code, colour, program2, save_changes >>

\* get_light_style_code (main.py:60-88). The result is [err, code]: err is
\* "StyleNotFound" for the Exception of line 64, "KeyError" for a brightness
\* that is no key of brightness_map (line 72), "none" otherwise.
get_light_style_code(style, brightness_arg, speed) ==
    LET match == light_style_match(style) IN
    IF match = << >> THEN [err |-> "StyleNotFound", code |-> << >>]
    ELSE
    LET program == match[1]
        program_code == programs(program)
        colour_code == IF match[2] # None THEN colours[match[2][1]] ELSE 8
    IN
    IF brightness_arg \notin DOMAIN brightness_map
        THEN [err |-> "KeyError", code |-> << >>]
    ELSE
    LET brightness_code == brightness_map[brightness_arg]
        colour == IF program = rainbow THEN 0
                  ELSE IF program = marquee THEN 8
                  ELSE IF program = wave THEN 0
                  ELSE colour_code
        program2 == IF program = rainbow THEN 0
                    ELSE IF program = marquee THEN 0
                    ELSE IF program = wave THEN 1
                    ELSE IF program \in {reactive, reactiveaurora, fireworks} THEN 1
                    ELSE 0
    IN [err |-> "none",
        code |-> get_code(program_code, speed, brightness_code, colour, program2, 0)]

----------------------------------------------------------------------------
(* DeviceHandler (handler.py:36-50).                                       *)
(* An execution record st carries one call through its transfers:          *)
(*   b       ControlCenter.brightness                                      *)
(*   tr      the transfers this call has issued, in order                  *)
(*   err     the exception that ended the call, "none" while it runs       *)
(*   failAt  the position in tr of the transfer the transport fails,       *)
(*           0 when every transfer succeeds                                *)
(*   dev     the device the handler owns                                   *)
(*   calls   the ControlCenter methods entered, in order                   *)

Transfer(dev, kind, payload, ok) ==
    [dev |-> dev, kind |-> kind, payload |-> payload, ok |-> ok]

\* Mutation of Issue: the error of a failed transfer is swallowed.
Issue_mutant(st, kind, payload) ==
    [st EXCEPT !.tr = Append(@, Transfer(st.dev, kind, payload,
                                         Len(st.tr) + 1 # st.failAt))]

\* One transfer: it is delivered, or the transport raises and the call ends.
Issue(st, kind, payload) ==
    IF Len(st.tr) + 1 = st.failAt
        THEN [st EXCEPT !.tr = Append(@, Transfer(st.dev, kind, payload, FALSE)),
                        !.err = "USBError"]
        ELSE [st EXCEPT !.tr = Append(@, Transfer(st.dev, kind, payload, TRUE))]

\* The payload of a control transfer is packed as unsigned bytes.
IsBytes(payload) == \A i \in 1..Len(payload) : payload[i] \in 0..255

\* DeviceHandler.ctrl_write (handler.py:44-46). ctrl_transfer packs the
\* payload tuple into an array of unsigned bytes before it transfers
\* anything, which raises OverflowError for a value outside 0..255.
ctrl_write(st, payload) ==
    IF IsBytes(payload) THEN Issue(st, "ctrl", payload)
    ELSE [st EXCEPT !.err = "OverflowError"]

\* DeviceHandler.bulk_write (handler.py:48-50): the loop stops at the first
\* write that raises.
RECURSIVE bulk_write(_, _, _)
bulk_write(st, times, payload) ==
    IF times <= 0 THEN st
    ELSE LET s1 == Issue(st, "bulk", payload) IN
         IF s1.err # "none" THEN s1 ELSE bulk_write(s1, times - 1, payload)

Enter(st, method) == [st EXCEPT !.calls = Append(@, method)]

----------------------------------------------------------------------------
(* The colour-vector collaborator aucc.core.colors (imported at            *)
(* main.py:16-19): a vector for known colour names, an error otherwise.    *)

\* The colour names main.py:183 lists as available.
colors_available ==
    { "red", "green", "blue", "teal", "pink", "purple", "white", "yellow",
      "orange", "olive", "maroon", "brown", "gray", "skyblue", "navy",
      "crimson", "darkgreen", "lightgreen", "gold", "violet" }

get_mono_color_vector(color_scheme) ==
    IF color_scheme \in colors_available
        THEN [err |-> "none", vector |-> << "mono", color_scheme >>]
        ELSE [err |-> "KeyError", vector |-> << >>]

get_h_alt_color_vector(color_scheme_a, color_scheme_b) ==
    IF color_scheme_a \in colors_available /\ color_scheme_b \in colors_available
        THEN [err |-> "none", vector |-> << "h_alt", color_scheme_a, color_scheme_b >>]
        ELSE [err |-> "KeyError", vector |-> << >>]

get_v_alt_color_vector(color_scheme_a, color_scheme_b) ==
    IF color_scheme_a \in colors_available /\ color_scheme_b \in colors_available
        THEN [err |-> "none", vector |-> << "v_alt", color_scheme_a, color_scheme_b >>]
        ELSE [err |-> "KeyError", vector |-> << >>]

----------------------------------------------------------------------------
(* ControlCenter (main.py:104-174). *)

\* The frame of disable_keyboard (main.py:126).
DisableFrame == << 8, 1, 0, 0, 0, 0, 0, 0 >>

\* The frame of adjust_brightness (main.py:134-135): 0x08 0x02 0x33 0x00 b 0 0 0
BrightnessFrame(code) == << 8, 2, 51, 0, code, 0, 0, 0 >>

\* The frame of color_scheme_setup (main.py:144): 0x12 0x00 0x00 0x08 s 0 0 0
PersistFrame(save_changes) == << 18, 0, 0, 8, save_changes, 0, 0, 0 >>

\* ControlCenter.disable_keyboard (main.py:125-126)
disable_keyboard(st) ==
    ctrl_write(Enter(st, "disable_keyboard"), DisableFrame)

\* Mutation of keyboard_style: the brightness of the style is also stored.
keyboard_style_mutant(st, style, brightness_arg, speed) ==
    LET s0 == [Enter(st, "keyboard_style") EXCEPT !.b = Some(brightness_arg)]
        r == get_light_style_code(style, brightness_arg, speed)
    IN IF r.err # "none" THEN [s0 EXCEPT !.err = r.err]
       ELSE ctrl_write(s0, r.code)

\* ControlCenter.keyboard_style (main.py:128-129)
keyboard_style(st, style, brightness_arg, speed) ==
    LET s0 == Enter(st, "keyboard_style")
        r == get_light_style_code(style, brightness_arg, speed)
    IN IF r.err # "none" THEN [s0 EXCEPT !.err = r.err]
       ELSE ctrl_write(s0, r.code)

\* Mutation of default_brightness: level 3, the default of keyboard_style.
default_brightness_mutant == Some(3)

\* The brightness adjust_brightness calls itself with when none is given
\* (main.py:137).
default_brightness == Some(4)

\* ControlCenter.adjust_brightness (main.py:131-137); level is an optional
\* integer. The level is stored before brightness_map is indexed with it.
RECURSIVE adjust_brightness(_, _)
adjust_brightness(st, level) ==
    LET s0 == Enter(st, "adjust_brightness") IN
    IF Truthy(level)
        THEN LET s1 == [s0 EXCEPT !.b = level] IN
             IF s1.b[1] \in DOMAIN brightness_map
                 THEN ctrl_write(s1, BrightnessFrame(brightness_map[s1.b[1]]))
                 ELSE [s1 EXCEPT !.err = "KeyError"]
        ELSE adjust_brightness(s0, default_brightness)

\* ControlCenter.color_scheme_setup (main.py:139-144), save_changes = 0x01
color_scheme_setup(st) ==
    ctrl_write(Enter(st, "color_scheme_setup"), PersistFrame(1))

\* Mutation of color_setup: the colour vector is looked up before the
\* persist frame is sent.
color_setup_lookup_first(st, name, vec) ==
    LET s0 == Enter(st, name)
        Body(s) == IF vec.err # "none" THEN [s EXCEPT !.err = vec.err]
                   ELSE LET s1 == color_scheme_setup(s) IN
                        IF s1.err # "none" THEN s1
                        ELSE bulk_write(s1, 8, vec.vector)
    IN IF Truthy(s0.b) THEN Body(s0)
       ELSE LET s1 == adjust_brightness(s0, None) IN
            IF s1.err # "none" THEN s1 ELSE Body(Enter(s1, name))

\* Mutation of color_setup: the default brightness is applied on every call.
color_setup_always_bootstrap(st, name, vec) ==
    LET s1 == adjust_brightness(Enter(st, name), None) IN
    IF s1.err # "none" THEN s1
    ELSE LET s2 == color_scheme_setup(Enter(s1, name)) IN
         IF s2.err # "none" THEN s2
         ELSE IF vec.err # "none" THEN [s2 EXCEPT !.err = vec.err]
         ELSE bulk_write(s2, 8, vec.vector)

\* The body the three colour-table operations share (main.py:148-154,
\* 158-164, 168-174): name is the method, vec the result of its lookup.
RECURSIVE color_setup(_, _, _)
color_setup(st, name, vec) ==
    LET s0 == Enter(st, name) IN
    IF Truthy(s0.b)
        THEN LET s1 == color_scheme_setup(s0) IN
             IF s1.err # "none" THEN s1
             ELSE IF vec.err # "none" THEN [s1 EXCEPT !.err = vec.err]
             ELSE bulk_write(s1, 8, vec.vector)
        ELSE LET s1 == adjust_brightness(s0, None) IN
             IF s1.err # "none" THEN s1
             ELSE color_setup(s1, name, vec)

\* ControlCenter.mono_color_setup (main.py:146-154)
mono_color_setup(st, color_scheme) ==
    color_setup(st, "mono_color_setup", get_mono_color_vector(color_scheme))

\* ControlCenter.h_alt_color_setup (main.py:156-164)
h_alt_color_setup(st, color_scheme_a, color_scheme_b) ==
    color_setup(st, "h_alt_color_setup",
                get_h_alt_color_vector(color_scheme_a, color_scheme_b))

\* ControlCenter.v_alt_color_setup (main.py:166-174)
v_alt_color_setup(st, color_scheme_a, color_scheme_b) ==
    color_setup(st, "v_alt_color_setup",
                get_v_alt_color_vector(color_scheme_a, color_scheme_b))

----------------------------------------------------------------------------
(* Device discovery and the command line (main.py:109-122, 177-277). *)

\* Python truth value of an optional colour name: None and "" are false.
TruthyName(x) == x # None /\ x[1] # ""

\* Python truth value of an optional style string or an optional list of
\* colour names: None and the empty sequence are false.
TruthySeq(x) == x # None /\ x[1] # << >>

\* vendor_products (main.py:213-227): vendor -> [any, products], where any
\* stands for the value None ("every product of this vendor").
vendor_products_of(parsed) ==
    IF parsed.vendor # None
        THEN IF parsed.product # None
                 THEN parsed.vendor[1] :> [any |-> FALSE, products |-> {parsed.product[1]}]
                 ELSE parsed.vendor[1] :> [any |-> TRUE, products |-> {}]
        ELSE IF parsed.product # None
                 THEN 1165 :> [any |-> FALSE, products |-> {parsed.product[1]}]
                 \* {0x048d: [0xce00, 0x600b, 0x7001]}
                 ELSE 1165 :> [any |-> FALSE, products |-> {52736, 24587, 28673}]

\* Mutation of match_device: the product list is not consulted.
match_device_mutant(vendor_products, dev) ==
    dev.idVendor \in DOMAIN vendor_products

\* match of get_devices (main.py:110-113)
match_device(vendor_products, dev) ==
    /\ dev.idVendor \in DOMAIN vendor_products
    /\ \/ vendor_products[dev.idVendor].any
       \/ dev.idProduct \in vendor_products[dev.idVendor].products

\* usb.core.find(find_all=True, custom_match=match) (main.py:115): the
\* positions from i on of the bus devices that match, in bus order.
RECURSIVE find_all(_, _, _)
find_all(vendor_products, bus, i) ==
    IF i > Len(bus) THEN << >>
    ELSE IF match_device(vendor_products, bus[i])
        THEN << i >> \o find_all(vendor_products, bus, i + 1)
    ELSE find_all(vendor_products, bus, i + 1)

\* Mutation of is_windows: the platform test always fails.
is_windows_mutant(platform) == FALSE

\* sys.platform.startswith('win') (main.py:117)
is_windows(platform) == platform = "win32"

\* ControlCenter.get_devices (main.py:109-122): the matching bus positions,
\* and the positions whose kernel driver of interface 1 it detaches.
get_devices(vendor_products, host) ==
    LET devices == find_all(vendor_products, host.bus, 1)
    IN [devices |-> devices,
        detached |-> IF ~is_windows(host.platform)
                         THEN { devices[k] : k \in { j \in 1..Len(devices) :
                                    host.bus[devices[j]].driverActive } }
                         ELSE {}]

\* Device selection of main (main.py:241-254): [err, device].
select_device(parsed, devices) ==
    IF Truthy(parsed.device)
        THEN IF parsed.device[1] < 1 \/ parsed.device[1] - 1 >= Len(devices)
                 THEN [err |-> "selection_error", device |-> None]
                 ELSE [err |-> "none", device |-> Some(devices[parsed.device[1]])]
        ELSE IF Len(devices) = 0 THEN [err |-> "selection_error", device |-> None]
        ELSE IF Len(devices) > 1 THEN [err |-> "selection_error", device |-> None]
        ELSE [err |-> "none", device |-> Some(devices[1])]

\* Mutation of dispatch: the brightness modifier is applied before every
\* operation, not only before the colour-table operations.
dispatch_mutant(parsed, st) ==
    LET s1 == IF Truthy(parsed.brightness)
                  THEN adjust_brightness(st, parsed.brightness)
                  ELSE st
    IN IF s1.err # "none" THEN s1
       ELSE IF parsed.disable THEN disable_keyboard(s1)
       ELSE IF TruthySeq(parsed.style)
           THEN keyboard_style(s1, parsed.style[1],
                               IF Truthy(parsed.brightness)
                                   THEN parsed.brightness[1] ELSE 3,
                               IF Truthy(parsed.speed) THEN parsed.speed[1] ELSE 5)
       ELSE IF TruthyName(parsed.color)
           THEN mono_color_setup(s1, parsed.color[1])
       ELSE IF TruthySeq(parsed.h_alt)
           THEN h_alt_color_setup(s1, parsed.h_alt[1][1], parsed.h_alt[1][2])
       ELSE IF TruthySeq(parsed.v_alt)
           THEN v_alt_color_setup(s1, parsed.v_alt[1][1], parsed.v_alt[1][2])
       ELSE [s1 EXCEPT !.calls = Append(@, "invalid_command")]

\* The operation dispatch of main (main.py:258-277) on execution record st.
dispatch(parsed, st) ==
    IF parsed.disable THEN disable_keyboard(st)
    ELSE IF TruthySeq(parsed.style)
        THEN LET speed == IF Truthy(parsed.speed) THEN parsed.speed[1] ELSE 5 IN
             IF Truthy(parsed.brightness)
                 THEN keyboard_style(st, parsed.style[1], parsed.brightness[1], speed)
                 ELSE keyboard_style(st, parsed.style[1], 3, speed)
    ELSE LET s1 == IF Truthy(parsed.brightness)
                       THEN adjust_brightness(st, parsed.brightness)
                       ELSE st
         IN IF s1.err # "none" THEN s1
            ELSE IF TruthyName(parsed.color)
                THEN mono_color_setup(s1, parsed.color[1])
            ELSE IF TruthySeq(parsed.h_alt)
                THEN h_alt_color_setup(s1, parsed.h_alt[1][1], parsed.h_alt[1][2])
            ELSE IF TruthySeq(parsed.v_alt)
                THEN v_alt_color_setup(s1, parsed.v_alt[1][1], parsed.v_alt[1][2])
            ELSE [s1 EXCEPT !.calls = Append(@, "invalid_command")]

\* The execution record of a call that starts with brightness b on device dev.
Start(b, dev, failAt) ==
    [b |-> b, tr |-> << >>, err |-> "none", failAt |-> failAt, dev |-> dev,
     calls |-> << >>]

\* main (main.py:177-277) for the parsed arguments on the host: the exit
\* code, how the invocation ended, the devices found and detached, the
\* device selected and the execution record of the dispatched operation.
main(parsed, host, failAt) ==
    LET found == get_devices(vendor_products_of(parsed), host)
        idle == Start(None, 0, failAt)
    IN
    IF parsed.list_devices
        THEN [code |-> 0, outcome |-> "listed", devices |-> found.devices,
              detached |-> found.detached, device |-> None, st |-> idle]
    ELSE
    LET sel == select_device(parsed, found.devices) IN
    IF sel.err # "none"
        THEN [code |-> 1, outcome |-> "selection_error", devices |-> found.devices,
              detached |-> found.detached, device |-> None, st |-> idle]
    ELSE
    LET st == dispatch(parsed, Start(None, sel.device[1], failAt)) IN
        [code |-> IF st.err # "none" THEN 1 ELSE 0,
         outcome |-> IF st.err # "none" THEN "exception" ELSE "done",
         devices |-> found.devices, detached |-> found.detached,
         device |-> sel.device, st |-> st]

----------------------------------------------------------------------------
(* Inputs. *)

ripple == program_names[6]

\* Brightness levels passed to adjust_brightness: none, and -1 .. MaxLevel.
Levels == {None} \cup { Some(v) : v \in -1..MaxLevel }

\* What may follow an effect name in a style string.
Suffixes ==
    {<< >>} \cup { << c >> : c \in DOMAIN colours } \cup
    { << "z" >>, << "R" >>, << " " >>, << "r", "r" >>, << "r", "z" >>,
      << "\n" >>, << "r", "\n" >>, << "\n", "\n" >> }

\* Style strings: every effect name with every suffix, and strings that
\* start with no effect name.
StyleTokens ==
    { program_names[i] \o x : i \in 1..Len(program_names), x \in Suffixes } \cup
    { << >>, << "x" >>, << "r" >>, << "w", "a", "v" >>, << "W", "a", "v", "e" >>,
      << "\n", "w", "a", "v", "e" >> }

\* The style strings, brightness and speed arguments used between other
\* operations.
FewStyles == { wave, ripple \o << "r" >>, ripple \o << "z" >> }

FewLevels == { 0, 3 }

FewSpeeds == { 0, 5, 256 }

\* Colour names: a known one and one aucc.core.colors does not know.
ColorNames == { "red", "magenta" }

\* The transfer of a call the transport fails (0: none). A colour-table
\* operation issues at most 2 control writes and 8 bulk writes.
FailPoints == 0..10

\* One device on a Linux host: 0x048d:0xce00.
DefaultHost ==
    [bus |-> << [idVendor |-> 1165, idProduct |-> 52736, driverActive |-> TRUE] >>,
     platform |-> "linux"]

NoParsed ==
    [list_devices |-> FALSE, color |-> None, h_alt |-> None, v_alt |-> None,
     style |-> None, disable |-> FALSE, vendor |-> None, product |-> None,
     device |-> None, brightness |-> None, speed |-> None]

NoCall ==
    [op |-> "none", args |-> << >>, pre |-> None, tr |-> << >>, err |-> "none",
     calls |-> << >>]

NoRun ==
    [state |-> "ready", code |-> 0, outcome |-> "none", parsed |-> NoParsed,
     devices |-> << >>, device |-> None]

----------------------------------------------------------------------------
(* One ControlCenter on one device: the caller calls operations one after  *)
(* the other and catches what they raise.                                  *)

Init ==
    /\ brightness = None
    /\ history = << >>
    /\ lastCall = NoCall
    /\ log = << >>
    /\ nOps = 0
    /\ env = DefaultHost
    /\ detached = {}
    /\ run = NoRun

\* The state after a call of op with args that ended in execution record st.
Called(op, args, st) ==
    \E r \in { st } :
        /\ brightness' = r.b
        /\ history' = history \o r.tr
        /\ lastCall' = [op |-> op, args |-> args, pre |-> brightness, tr |-> r.tr,
                        err |-> r.err, calls |-> r.calls]
        /\ log' = Append(log, [op |-> op, args |-> args, err |-> r.err])
        /\ nOps' = nOps + 1
        /\ UNCHANGED << env, detached, run >>

DisableKeyboard ==
    /\ nOps < MaxOps
    /\ \E f \in 0..1 :
        Called("disable_keyboard", << >>, disable_keyboard(Start(brightness, 1, f)))

KeyboardStyle ==
    /\ nOps < MaxOps
    /\ \E style \in FewStyles, b \in FewLevels, s \in FewSpeeds, f \in 0..1 :
        Called("keyboard_style", << style, b, s >>,
               keyboard_style(Start(brightness, 1, f), style, b, s))

AdjustBrightness ==
    /\ nOps < MaxOps
    /\ \E level \in Levels, f \in 0..1 :
        Called("adjust_brightness", << level >>,
               adjust_brightness(Start(brightness, 1, f), level))

ColorSchemeSetup ==
    /\ nOps < MaxOps
    /\ \E f \in 0..1 :
        Called("color_scheme_setup", << >>, color_scheme_setup(Start(brightness, 1, f)))

MonoColorSetup ==
    /\ nOps < MaxOps
    /\ \E c \in ColorNames, f \in FailPoints :
        Called("mono_color_setup", << c >>,
               mono_color_setup(Start(brightness, 1, f), c))

HAltColorSetup ==
    /\ nOps < MaxOps
    /\ \E a \in ColorNames, c \in ColorNames, f \in FailPoints :
        Called("h_alt_color_setup", << a, c >>,
               h_alt_color_setup(Start(brightness, 1, f), a, c))

VAltColorSetup ==
    /\ nOps < MaxOps
    /\ \E a \in ColorNames, c \in ColorNames, f \in FailPoints :
        Called("v_alt_color_setup", << a, c >>,
               v_alt_color_setup(Start(brightness, 1, f), a, c))

Next ==
    \/ DisableKeyboard
    \/ KeyboardStyle
    \/ AdjustBrightness
    \/ ColorSchemeSetup
    \/ MonoColorSetup
    \/ HAltColorSetup
    \/ VAltColorSetup

Spec == Init /\ [][Next]_vars

----------------------------------------------------------------------------
(* keyboard_style over every style string, brightness and speed, called on *)
(* a fresh ControlCenter or after one adjust_brightness.                   *)

StyleAdjust ==
    /\ nOps = 0
    /\ \E level \in Levels :
        Called("adjust_brightness", << level >>,
               adjust_brightness(Start(brightness, 1, 0), level))

StyleCall ==
    /\ lastCall.op # "keyboard_style"
    /\ \E style \in StyleTokens, b \in 0..MaxLevel, s \in 0..MaxSpeed, f \in 0..1 :
        Called("keyboard_style", << style, b, s >>,
               keyboard_style(Start(brightness, 1, f), style, b, s))

StyleNext == StyleAdjust \/ StyleCall

SpecStyle == Init /\ [][StyleNext]_vars

----------------------------------------------------------------------------
(* One command-line invocation on a host. *)

\* The devices a bus may hold: 0x048d:0xce00 with and without an active
\* kernel driver on interface 1, and 0x1234:0x0001.
DeviceKinds ==
    { [idVendor |-> 1165, idProduct |-> 52736, driverActive |-> TRUE],
      [idVendor |-> 1165, idProduct |-> 52736, driverActive |-> FALSE],
      [idVendor |-> 4660, idProduct |-> 1, driverActive |-> TRUE] }

Hosts ==
    [bus : UNION { [1..n -> DeviceKinds] : n \in 0..MaxDevices },
     platform : {"linux", "win32"}]

\* The operation of the required, mutually exclusive group (main.py:186-198).
ParsedOps ==
    { [NoParsed EXCEPT !.list_devices = TRUE], [NoParsed EXCEPT !.disable = TRUE] }
    \cup { [NoParsed EXCEPT !.style = Some(t)] :
               t \in { wave, ripple \o << "r" >>, ripple \o << "z" >>, << >> } }
    \cup { [NoParsed EXCEPT !.color = Some(c)] : c \in ColorNames \cup {""} }
    \cup { [NoParsed EXCEPT !.h_alt = Some(<< "red", c >>)] : c \in ColorNames }
    \cup { [NoParsed EXCEPT !.v_alt = Some(<< "red", c >>)] : c \in ColorNames }

\* The parsed command lines: an operation with the modifiers of
\* main.py:200-209. argparse admits brightness 1..4 and speed 1..10 only,
\* and any integer as the device. A speed is tried with the style and the
\* disable operations.
ParsedArgs ==
    UNION { { [o EXCEPT !.vendor = v, !.product = p, !.device = d,
                        !.brightness = b, !.speed = s] :
                  v \in { None, Some(4660) },
                  p \in { None, Some(1) },
                  d \in {None} \cup { Some(i) : i \in -1..(MaxDevices + 1) },
                  b \in {None} \cup { Some(i) : i \in DOMAIN brightness_map },
                  s \in IF o.style # None \/ o.disable
                            THEN { None, Some(7) } ELSE { None } } :
            o \in ParsedOps }

\* The transfers of the invocation the transport fails (0: none).
MainFailPoints == { 0, 1, 2, 3, 10 }

MainInit ==
    /\ brightness = None
    /\ history = << >>
    /\ lastCall = NoCall
    /\ log = << >>
    /\ nOps = 0
    /\ env \in Hosts
    /\ detached = {}
    /\ run = NoRun

Main ==
    /\ run.state = "ready"
    /\ \E parsed \in ParsedArgs, f \in MainFailPoints :
        \E r \in { main(parsed, env, f) } :
        /\ run' = [state |-> "exited", code |-> r.code, outcome |-> r.outcome,
                   parsed |-> parsed, devices |-> r.devices, device |-> r.device]
        /\ brightness' = r.st.b
        /\ history' = history \o r.st.tr
        /\ detached' = detached \cup r.detached
        /\ lastCall' = [op |-> "main", args |-> << >>, pre |-> None, tr |-> r.st.tr,
                        err |-> r.st.err, calls |-> r.st.calls]
        /\ nOps' = nOps + 1
        /\ UNCHANGED << env, log >>

MainNext == Main

SpecMain == MainInit /\ [][MainNext]_vars

----------------------------------------------------------------------------
(* Vocabulary of the properties. *)

ColorOps == { "mono_color_setup", "h_alt_color_setup", "v_alt_color_setup" }

\* Every colour name passed to the last call is a known one.
KnownColors(call) == \A i \in 1..Len(call.args) : call.args[i] \in colors_available

\* No transfer of the sequence failed.
AllDelivered(tr) == \A i \in 1..Len(tr) : tr[i].ok

\* A control payload of the form (0x08, 0x02, 0x33, 0x00, b, 0, 0, 0).
IsBrightnessFrame(p) ==
    /\ Len(p) = 8
    /\ p[1] = 8 /\ p[2] = 2 /\ p[3] = 51 /\ p[4] = 0
    /\ p[6] = 0 /\ p[7] = 0 /\ p[8] = 0

\* The style grammar: an effect name, optionally followed by one colour letter.
OptionalLetter == {<< >>} \cup { << c >> : c \in {"r", "o", "y", "g", "b", "t", "p"} }

ValidStyle(style) ==
    \E i \in 1..Len(program_names), x \in OptionalLetter : style = program_names[i] \o x

\* The brightness byte of levels 1..4: 0x08, 0x16, 0x24, 0x32.
LevelByte(level) ==
    CASE level = 1 -> 8 [] level = 2 -> 22 [] level = 3 -> 36 [] level = 4 -> 50

----------------------------------------------------------------------------
(* C1 *)

\* C1: a colour-table operation called with known colour names while
\* brightness is None, every transfer succeeding, issues exactly the control
\* write (0x08,0x02,0x33,0x00,0x32,0,0,0), then the control write
\* (0x12,0x00,0x00,0x08,0x01,0,0,0), then 8 bulk writes of one colour vector,
\* and leaves brightness at 4.
C1_BootstrapSequence ==
    ( /\ lastCall.op \in ColorOps
      /\ lastCall.pre = None
      /\ KnownColors(lastCall)
      /\ AllDelivered(lastCall.tr) )
    => /\ lastCall.err = "none"
       /\ Len(lastCall.tr) = 10
       /\ lastCall.tr[1] = Transfer(1, "ctrl", << 8, 2, 51, 0, 50, 0, 0, 0 >>, TRUE)
       /\ lastCall.tr[2] = Transfer(1, "ctrl", << 18, 0, 0, 8, 1, 0, 0, 0 >>, TRUE)
       /\ \A i \in 3..10 : /\ lastCall.tr[i].kind = "bulk"
                           /\ lastCall.tr[i].payload = lastCall.tr[3].payload
       /\ brightness = Some(4)

C1_Witness ==
    /\ lastCall.op = "h_alt_color_setup"
    /\ lastCall.pre = None
    /\ KnownColors(lastCall)
    /\ lastCall.err = "none"
    /\ Len(lastCall.tr) = 10

----------------------------------------------------------------------------
(* C2 *)

\* C2: every bulk write delivered to the device is preceded in the device's
\* transfer history by a delivered brightness control write
\* (0x08,0x02,0x33,0x00,b,0,0,0).
C2_BrightnessBeforeBulk ==
    \A i \in 1..Len(history) :
        (history[i].kind = "bulk" /\ history[i].ok)
        => \E j \in 1..(i - 1) : /\ history[j].kind = "ctrl"
                                 /\ history[j].ok
                                 /\ IsBrightnessFrame(history[j].payload)

----------------------------------------------------------------------------
(* C3 *)

\* C3: disable_keyboard, keyboard_style, color_scheme_setup and a
\* colour-table operation called while brightness is set leave
\* ControlCenter.brightness as it was before the call, whether they return
\* or raise.
C3_OnlyAdjustChangesBrightness ==
    ( \/ lastCall.op \in {"disable_keyboard", "keyboard_style", "color_scheme_setup"}
      \/ (lastCall.op \in ColorOps /\ lastCall.pre # None) )
    => brightness = lastCall.pre

C3_Witness ==
    /\ lastCall.op = "mono_color_setup"
    /\ lastCall.pre = Some(2)
    /\ lastCall.err = "none"
    /\ brightness = Some(2)

----------------------------------------------------------------------------
(* C4 *)

\* C4: in every reachable state ControlCenter.brightness is None or one of
\* 1, 2, 3, 4.
C4_StoredBrightnessValid ==
    brightness \in {None} \cup { Some(v) : v \in 1..4 }

----------------------------------------------------------------------------
(* C5 *)

\* C5: keyboard_style called with a valid style and a brightness outside
\* 1..4 or a speed outside 1..10 raises and issues no transfer, so that no
\* frame with a speed byte outside 1..10 is sent.
C5_InvalidLevelOrSpeedRejected ==
    ( /\ lastCall.op = "keyboard_style"
      /\ ValidStyle(lastCall.args[1])
      /\ (lastCall.args[2] \notin 1..4 \/ lastCall.args[3] \notin 1..10) )
    => /\ lastCall.err # "none"
       /\ lastCall.tr = << >>

----------------------------------------------------------------------------
(* C6 *)

\* C6: keyboard_style called with a string that is not an effect name
\* optionally followed by one colour letter raises, issues no transfer and
\* leaves ControlCenter.brightness unchanged.
C6_UnknownStyleRejected ==
    ( /\ lastCall.op = "keyboard_style"
      /\ ~ValidStyle(lastCall.args[1]) )
    => /\ lastCall.err # "none"
       /\ lastCall.tr = << >>
       /\ brightness = lastCall.pre

----------------------------------------------------------------------------
(* C7 *)

\* The frame C7 states for effect number i, optional letter x, brightness b
\* and speed s.
C7_Frame(i, x, b, s) ==
    LET e == program_names[i]
        letter == IF x = << >> THEN 8
                  ELSE CASE x[1] = "r" -> 1 [] x[1] = "o" -> 2 [] x[1] = "y" -> 3
                         [] x[1] = "g" -> 4 [] x[1] = "b" -> 5 [] x[1] = "t" -> 6
                         [] x[1] = "p" -> 7
        colour == IF e \in {rainbow, wave} THEN 0
                  ELSE IF e = marquee THEN 8
                  ELSE letter
        program2 == IF e \in {wave, reactive, reactiveaurora, fireworks} THEN 1 ELSE 0
    IN << 8, 2, program_codes[i], s, LevelByte(b), colour, program2, 0 >>

\* C7: for every effect name e, optional colour letter c, brightness b in
\* 1..4 and speed s in 1..10, the frame of the style e+c is
\* (0x08, 0x02, programs[e], s, brightness_map[b], colour, program2, 0x00),
\* with colour 0x00 for rainbow and wave, 0x08 for marquee, otherwise the
\* code of c or 0x08 without c, and program2 0x01 exactly for wave,
\* reactive, reactiveaurora and fireworks.
C7_StyleFrame ==
    ( /\ lastCall.op = "keyboard_style"
      /\ lastCall.args[2] \in 1..4
      /\ lastCall.args[3] \in 1..10 )
    => \A i \in 1..Len(program_names), x \in OptionalLetter :
           lastCall.args[1] = program_names[i] \o x
           => /\ Len(lastCall.tr) = 1
              /\ lastCall.tr[1].kind = "ctrl"
              /\ lastCall.tr[1].payload =
                     C7_Frame(i, x, lastCall.args[2], lastCall.args[3])

\* ripple + r at brightness 3 and speed 5: (0x08,0x02,0x06,0x05,0x24,0x01,0,0).
C7_Witness ==
    /\ lastCall.op = "keyboard_style"
    /\ lastCall.args = << ripple \o << "r" >>, 3, 5 >>
    /\ Len(lastCall.tr) = 1
    /\ lastCall.tr[1].payload = << 8, 2, 6, 5, 36, 1, 0, 0 >>

----------------------------------------------------------------------------
(* C8 *)

\* C8: for a non-listing operation with n matching devices and optional
\* device index i: a supplied i < 1 or i > n, and a missing index with
\* n = 0 or n > 1, end the program with a non-zero exit code and without
\* any control or bulk write; otherwise writes go to device i only, or to
\* the single device.
C8_DeviceSelection ==
    (run.state = "exited" /\ ~run.parsed.list_devices)
    => LET n == Len(run.devices)
           i == run.parsed.device
       IN IF i # None /\ (i[1] < 1 \/ i[1] > n)
              THEN run.code # 0 /\ history = << >>
          ELSE IF i = None /\ (n = 0 \/ n > 1)
              THEN run.code # 0 /\ history = << >>
          ELSE \A k \in 1..Len(history) :
                   history[k].dev = run.devices[IF i # None THEN i[1] ELSE 1]

----------------------------------------------------------------------------
(* C9 *)

\* C9: when an invocation ends in a device selection error, no transport
\* operation has been performed before: no kernel-driver detach, no control
\* transfer, no bulk write.
C9_NoTransportBeforeSelectionError ==
    run.outcome = "selection_error" => (detached = {} /\ history = << >>)

\* C9 (amended): when an invocation ends in a device selection error, no
\* control transfer and no bulk write has been issued; the kernel drivers
\* get_devices detaches (interface 1 of every matching device with an active
\* driver, on a host that is not Windows) have been detached.
C9_OnlyDetachBeforeSelectionError ==
    run.outcome = "selection_error"
    => /\ history = << >>
       /\ detached = IF env.platform = "win32" THEN {}
                     ELSE { p \in 1..Len(env.bus) :
                              /\ \E k \in 1..Len(run.devices) : run.devices[k] = p
                              /\ env.bus[p].driverActive }

C9_Witness ==
    /\ run.outcome = "selection_error"
    /\ Len(run.devices) = 2
    /\ run.parsed.device = None
    /\ detached # {}

----------------------------------------------------------------------------
(* C10 *)

\* C10: adjust_brightness(level) with level in 1..4 stores level and issues
\* exactly one control write (0x08,0x02,0x33,0x00,byte,0,0,0) with byte
\* 0x08, 0x16, 0x24, 0x32 for level 1, 2, 3, 4; adjust_brightness without a
\* level does what adjust_brightness(4) does, whatever was stored before.
C10_AdjustBrightness ==
    lastCall.op = "adjust_brightness"
    => LET level == lastCall.args[1]
           given == IF level = None THEN 4 ELSE level[1]
       IN given \in 1..4
          => /\ brightness = Some(given)
             /\ Len(lastCall.tr) = 1
             /\ lastCall.tr[1].kind = "ctrl"
             /\ lastCall.tr[1].payload = << 8, 2, 51, 0, LevelByte(given), 0, 0, 0 >>

C10_Witness ==
    /\ lastCall.op = "adjust_brightness"
    /\ lastCall.args = << None >>
    /\ lastCall.pre = Some(2)
    /\ brightness = Some(4)
    /\ lastCall.err = "none"

----------------------------------------------------------------------------
(* C11 *)

\* The bulk writes among the transfers tr.
BulkWrites(tr) == SelectSeq(tr, LAMBDA t : t.kind = "bulk")

\* C11: a transfer that fails ends the operation with the error: it is the
\* last transfer the operation issues and is issued once; after a failed
\* control write no bulk write follows, and a failure at bulk write k of 8
\* leaves exactly k - 1 delivered bulk writes.
C11_FailureEndsOperation ==
    (lastCall.op # "none" /\ lastCall.op # "main")
    => \A i \in 1..Len(lastCall.tr) :
           ~lastCall.tr[i].ok
           => /\ lastCall.err = "USBError"
              /\ i = Len(lastCall.tr)
              /\ \A j \in 1..(i - 1) : lastCall.tr[j].ok
              /\ lastCall.tr[i].kind = "ctrl" => BulkWrites(lastCall.tr) = << >>
              /\ lastCall.tr[i].kind = "bulk"
                 => LET k == Len(BulkWrites(lastCall.tr)) IN
                    /\ k \in 1..8
                    /\ Len(SelectSeq(BulkWrites(lastCall.tr), LAMBDA t : t.ok)) = k - 1
                    /\ \A j \in (i - k + 1)..i : lastCall.tr[j].kind = "bulk"

\* The fifth bulk write of a bootstrapped mono_color_setup fails.
C11_Witness ==
    /\ lastCall.op = "mono_color_setup"
    /\ lastCall.pre = None
    /\ lastCall.err = "USBError"
    /\ Len(lastCall.tr) = 7
    /\ ~lastCall.tr[7].ok
    /\ Len(SelectSeq(lastCall.tr, LAMBDA t : t.kind = "bulk" /\ t.ok)) = 4

----------------------------------------------------------------------------
(* C12 *)

C12_WitnessOverflow ==
    /\ lastCall.op = "keyboard_style"
    /\ lastCall.args = << wave, 3, 256 >>
    /\ lastCall.err = "OverflowError"
    /\ lastCall.tr = << >>

----------------------------------------------------------------------------
(* C13 *)

\* The bus positions the allow-list vp admits: the vendor is a key and the
\* product is listed, or the vendor maps to None.
Allowed(vp, bus) ==
    { p \in 1..Len(bus) :
        \E v \in DOMAIN vp :
            /\ bus[p].idVendor = v
            /\ (vp[v].any \/ bus[p].idProduct \in vp[v].products) }

\* C13: get_devices returns exactly the enumerated devices the allow-list
\* admits, in bus order; on a host that is not Windows it detaches the
\* kernel driver of exactly the returned devices whose driver is active, on
\* Windows none; a device outside the allow-list is never touched.
C13_GetDevices ==
    run.state = "exited"
    => LET allowed == Allowed(vendor_products_of(run.parsed), env.bus)
           returned == { run.devices[k] : k \in 1..Len(run.devices) }
       IN /\ returned = allowed
          /\ Len(run.devices) = Cardinality(allowed)
          /\ \A j, k \in 1..Len(run.devices) :
                 j < k => run.devices[j] < run.devices[k]
          /\ detached = IF env.platform = "win32" THEN {}
                        ELSE { p \in returned : env.bus[p].driverActive }
          /\ \A p \in 1..Len(env.bus) :
                 p \notin allowed
                 => /\ p \notin detached
                    /\ \A k \in 1..Len(history) : history[k].dev # p

\* A two-device bus of which the allow-list admits one, whose driver is
\* detached.
C13_Witness ==
    /\ run.state = "exited"
    /\ Len(env.bus) = 2
    /\ run.devices = << 2 >>
    /\ detached = {2}
    /\ run.parsed.vendor = None
    /\ run.parsed.product = None

----------------------------------------------------------------------------
(* C14 *)

\* C14: a colour-table operation sends the persist frame before it looks up
\* the colour vector: called with an unknown colour name, and no transfer
\* failing, it raises the lookup's error after delivering the persist frame
\* (preceded by the level-4 brightness frame when brightness was None), it
\* has issued no bulk write, and brightness stays set.
C14_PersistBeforeLookup ==
    ( /\ lastCall.op \in ColorOps
      /\ ~KnownColors(lastCall)
      /\ AllDelivered(lastCall.tr) )
    => /\ lastCall.err = "KeyError"
       /\ lastCall.tr =
              IF lastCall.pre = None
                  THEN << Transfer(1, "ctrl", << 8, 2, 51, 0, 50, 0, 0, 0 >>, TRUE),
                          Transfer(1, "ctrl", << 18, 0, 0, 8, 1, 0, 0, 0 >>, TRUE) >>
                  ELSE << Transfer(1, "ctrl", << 18, 0, 0, 8, 1, 0, 0, 0 >>, TRUE) >>
       /\ brightness # None
       /\ brightness = IF lastCall.pre = None THEN Some(4) ELSE lastCall.pre

C14_Witness ==
    /\ lastCall.op = "v_alt_color_setup"
    /\ lastCall.args = << "red", "magenta" >>
    /\ lastCall.pre = None
    /\ lastCall.err = "KeyError"
    /\ Len(lastCall.tr) = 2
    /\ brightness = Some(4)

----------------------------------------------------------------------------
(* C15 *)

\* A control payload that is the brightness frame of level 4.
BootstrapFrame == << 8, 2, 51, 0, 50, 0, 0, 0 >>

\* Every operation called so far was a colour-table operation that returned.
OnlyColorOps ==
    /\ log # << >>
    /\ \A k \in 1..Len(log) : log[k].op \in ColorOps /\ log[k].err = "none"

\* An earlier adjust_brightness(b) with b in 1..4 returned.
AdjustedBefore ==
    \E k \in 1..(Len(log) - 1) :
        /\ log[k].op = "adjust_brightness"
        /\ log[k].err = "none"
        /\ log[k].args[1] # None
        /\ log[k].args[1][1] \in 1..4

\* C15: over a sequence of n successful colour-table operations with no
\* other call, one brightness control write (level 4) is sent in all, as the
\* first transfer, and every operation sends one persist frame followed by
\* 8 bulk writes; and a colour-table operation called after a successful
\* adjust_brightness(b), b in 1..4, sends no brightness frame.
C15_BootstrapOnce ==
    /\ OnlyColorOps
       => /\ Len(history) = 1 + 9 * Len(log)
          /\ history[1].kind = "ctrl" /\ history[1].payload = BootstrapFrame
          /\ \A i \in 2..Len(history) :
                 IF (i - 2) % 9 = 0
                     THEN /\ history[i].kind = "ctrl"
                          /\ history[i].payload = << 18, 0, 0, 8, 1, 0, 0, 0 >>
                     ELSE history[i].kind = "bulk"
    /\ (lastCall.op \in ColorOps /\ AdjustedBefore)
       => \A i \in 1..Len(lastCall.tr) : ~IsBrightnessFrame(lastCall.tr[i].payload)

\* Two successful colour-table operations in a row.
C15_Witness ==
    /\ OnlyColorOps
    /\ Len(log) = 2
    /\ Len(lastCall.tr) = 9

\* A colour-table operation after adjust_brightness(2).
C15_WitnessAdjusted ==
    /\ lastCall.op \in ColorOps
    /\ AdjustedBefore
    /\ lastCall.err = "none"

----------------------------------------------------------------------------
(* C16 *)

\* The transfers of a colour-table operation on device d after brightness
\* level b: brightness frame, persist frame, 8 bulk writes of vector.
C16_ColorTrace(d, b, vector) ==
    << Transfer(d, "ctrl", << 8, 2, 51, 0, LevelByte(b), 0, 0, 0 >>, TRUE),
       Transfer(d, "ctrl", << 18, 0, 0, 8, 1, 0, 0, 0 >>, TRUE) >>
    \o [k \in 1..8 |-> Transfer(d, "bulk", vector, TRUE)]

\* C16 as stated, for every argument: on a selected device with every
\* transfer succeeding, disable issues its one control write, a style
\* issues exactly one control write, and a colour operation issues a
\* brightness frame, the persist frame and 8 bulk writes.
C16_TraceForAnyArguments ==
    (run.state = "exited" /\ run.device # None /\ AllDelivered(history))
    => LET p == run.parsed
           d == run.device[1]
       IN /\ p.disable
             => history = << Transfer(d, "ctrl", << 8, 1, 0, 0, 0, 0, 0, 0 >>, TRUE) >>
          /\ p.style # None
             => /\ Len(history) = 1
                /\ history[1].kind = "ctrl"
                /\ ~IsBrightnessFrame(history[1].payload)
          /\ (p.color # None \/ p.h_alt # None \/ p.v_alt # None)
             => /\ Len(history) = 10
                /\ IsBrightnessFrame(history[1].payload)
                /\ history[2].payload = << 18, 0, 0, 8, 1, 0, 0, 0 >>
                /\ \A k \in 3..10 : history[k].kind = "bulk"

\* C16: an invocation on a selected device, with valid arguments and every
\* transfer succeeding, issues: for disable, the one control write
\* (0x08,0x01,0,0,0,0,0,0), also with a brightness modifier; for a style,
\* the one control write of the style frame, with brightness 3 and speed 5
\* where the modifier is absent; for a colour operation, the brightness
\* frame of the modifier, or of level 4 without one, then the persist frame,
\* then 8 bulk writes.
C16_InvocationTrace ==
    (run.state = "exited" /\ run.device # None /\ AllDelivered(history))
    => LET p == run.parsed
           d == run.device[1]
           b == IF p.brightness # None THEN p.brightness[1] ELSE 4
       IN /\ p.disable
             => history = << Transfer(d, "ctrl", << 8, 1, 0, 0, 0, 0, 0, 0 >>, TRUE) >>
          /\ p.style # None
             => \A i \in 1..Len(program_names), x \in OptionalLetter :
                    p.style[1] = program_names[i] \o x
                    => history =
                         << Transfer(d, "ctrl",
                              C7_Frame(i, x,
                                  IF p.brightness # None THEN p.brightness[1] ELSE 3,
                                  IF p.speed # None THEN p.speed[1] ELSE 5),
                              TRUE) >>
          /\ (p.color # None /\ p.color[1] \in colors_available)
             => \E vector \in { history[3].payload } :
                    history = C16_ColorTrace(d, b, vector)
          /\ (p.h_alt # None /\ { p.h_alt[1][1], p.h_alt[1][2] } \subseteq colors_available)
             => \E vector \in { history[3].payload } :
                    history = C16_ColorTrace(d, b, vector)
          /\ (p.v_alt # None /\ { p.v_alt[1][1], p.v_alt[1][2] } \subseteq colors_available)
             => \E vector \in { history[3].payload } :
                    history = C16_ColorTrace(d, b, vector)
          /\ ( \/ p.disable
               \/ (p.style # None /\ ValidStyle(p.style[1]))
               \/ (p.color # None /\ p.color[1] \in colors_available)
               \/ (p.h_alt # None /\ { p.h_alt[1][1], p.h_alt[1][2] } \subseteq colors_available)
               \/ (p.v_alt # None /\ { p.v_alt[1][1], p.v_alt[1][2] } \subseteq colors_available) )
             => run.code = 0

\* disable with a brightness modifier.
C16_Witness ==
    /\ run.state = "exited"
    /\ run.parsed.disable
    /\ run.parsed.brightness = Some(1)
    /\ run.code = 0
    /\ Len(history) = 1

\* A style with both modifiers, and a colour operation with a modifier.
C16_WitnessStyle ==
    /\ run.state = "exited"
    /\ run.parsed.style = Some(ripple \o << "r" >>)
    /\ run.parsed.brightness = Some(2)
    /\ run.parsed.speed = Some(7)
    /\ run.device # None
    /\ history = << Transfer(run.device[1], "ctrl", << 8, 2, 6, 7, 22, 1, 0, 0 >>, TRUE) >>

----------------------------------------------------------------------------
(* C17 *)

\* The number of entries of method name in a sequence of method entries.
Count(calls, name) == Cardinality({ i \in 1..Len(calls) : calls[i] = name })

\* C17: every operation returns or raises after finitely many steps:
\* adjust_brightness is entered twice when the level is None or 0 and once
\* otherwise; a colour-table operation is entered once when brightness is
\* set on entry, and otherwise at most twice, after adjust_brightness was
\* entered twice, the second entry following a delivered brightness frame;
\* every other operation is entered once.
C17_BoundedSelfInvocation ==
    LET op == lastCall.op
        calls == lastCall.calls
    IN /\ op = "adjust_brightness"
          => Count(calls, op) = IF lastCall.args[1] \in { None, Some(0) } THEN 2 ELSE 1
       /\ op \in ColorOps
          => /\ Count(calls, op) \in 1..2
             /\ lastCall.pre # None
                => Count(calls, op) = 1 /\ Count(calls, "adjust_brightness") = 0
             /\ lastCall.pre = None
                => /\ Count(calls, "adjust_brightness") = 2
                   /\ Count(calls, op) = 2 <=> lastCall.tr[1].ok
       /\ op \in { "disable_keyboard", "keyboard_style", "color_scheme_setup" }
          => calls = << op >>
       /\ Len(calls) <= 6

\* adjust_brightness(0) enters itself a second time, with the default level.
C17_Witness ==
    /\ lastCall.op = "adjust_brightness"
    /\ lastCall.args = << Some(0) >>
    /\ lastCall.calls = << "adjust_brightness", "adjust_brightness" >>
    /\ lastCall.err = "none"

\* A colour-table operation on an unset brightness enters itself a second time.
C17_WitnessColor ==
    /\ lastCall.op = "mono_color_setup"
    /\ lastCall.pre = None
    /\ Count(lastCall.calls, "mono_color_setup") = 2
    /\ lastCall.err = "none"

====
